---- MODULE Spec2Model ----
(***************************************************************************)
(* Model of the map component of nicoschuldt/datacenter-map: the scoring   *)
(* normalizer (transformBackendData), the validation pass                  *)
(* (validateHexData) and the Map Update Protocol (updateMap), in the two   *)
(* schema variants found in the repository:                                *)
(*   "v2"  src/src/app/components/DatacenterMap.tsx                        *)
(*         (connection_points / latency_ms / avg_temperature)              *)
(*   "v1"  src/unnamed/part_003                                            *)
(*         (avgTemp / gridDistance / internetSpeed / nbGridConnections);   *)
(*         the file holds a second copy of the component whose updateMap   *)
(*         calls setIsLoading(true) before the try block and is otherwise  *)
(*         the same, so that it leaves the same state                      *)
(*                                                                         *)
(* Beside the component, the model holds the colour and elevation mapper   *)
(* of its layers (SpecRender), the mock analyze route of                   *)
(* src/unnamed/part_000 (SpecMock) and the two routes that call the        *)
(* external backend, src/src/app/api/analyze/route.ts and                  *)
(* src/unnamed/part_001 (SpecRoute), and the chat of                       *)
(* src/src/app/components/Chat.tsx with handleMapUpdate of                 *)
(* src/src/app/page.tsx, which hands the answers to the map (SpecChat, and *)
(* SpecChatFair where the network settles every request).  Each           *)
(* specification follows its own part and holds the variables of the       *)
(* others still.                                                           *)
(*                                                                         *)
(* Numbers are fixed-point: the integer k stands for k / 1000, so that     *)
(* toFixed(2), toFixed(1) and toFixed(0) all have digits to round away.    *)
(* Negative zero, NaN and the two infinities are kept as distinct values.  *)
(***************************************************************************)
EXTENDS Integers, Sequences, FiniteSets, TLC

VARIABLES
    component,   \* which variant of the component is mounted ("v1" or "v2")
    hexData,     \* useState<HexData[]>: the displayed batch
    isLoading,   \* useState(showLoadingState)
    lastData,    \* history: the argument of the last updateMap call
    prevIds,     \* history: the cell ids displayed before the last call
    escaped,     \* history: the last updateMap call threw to its caller
    activeLayer, \* page.tsx useState<LayerType>: the layer that is drawn
    shown,       \* what the accessors of the drawn layer returned for hexData[1]
    MOCK_HEX_IDS, \* part_000: the module's array of ids, which POST sorts in place
    lastMock,    \* history: the last request to POST of part_000 and its response
    lastRoute,   \* history: the last request to a route that calls the backend,
                 \* what the backend call came to, and the response
    messages,    \* Chat useState<Message[]>: the transcript
    inputValue,  \* Chat useState(''): the text of the input field
    chatLoading, \* Chat useState(false): isLoading of the chat
    inFlight,    \* the requests that fetch has sent and that have not settled
    timers,      \* the setTimeout callbacks of handleMapUpdate that wait, oldest first
    lastSend,    \* history: the last call of handleSendMessage
    lastSettle,  \* history: the last request that settled and what it came to
    shownFor     \* history: the place in the transcript of the message whose
                 \* answer the last updateMap call of the chat carried

mapVars == <<component, hexData, isLoading, lastData, prevIds, escaped>>

renderVars == <<activeLayer, shown>>

mockVars == <<MOCK_HEX_IDS, lastMock>>

routeVars == <<lastRoute>>

chatVars == <<messages, inputValue, chatLoading, inFlight, timers, lastSend, lastSettle,
              shownFor>>

vars == <<mapVars, renderVars, mockVars, routeVars, chatVars>>

----------------------------------------------------------------------------
(* Bounds of the model.                                                    *)

\* Half-width of the windows of sampled scores around 0 and around 1
\* (in thousandths): scores -Spread..Spread and 1000-Spread..1000+Spread.
Spread == 5

----------------------------------------------------------------------------
(* JavaScript values.                                                      *)

Undefined == [t |-> "undefined", n |-> 0, s |-> ""]
Null      == [t |-> "null", n |-> 0, s |-> ""]
Num(k)    == [t |-> "number", n |-> k, s |-> "finite"]
NegZero   == [t |-> "number", n |-> 0, s |-> "-0"]
NaN       == [t |-> "number", n |-> 0, s |-> "NaN"]
PosInf    == [t |-> "number", n |-> 0, s |-> "Infinity"]
NegInf    == [t |-> "number", n |-> 0, s |-> "-Infinity"]
Str(x)    == [t |-> "string", n |-> 0, s |-> x]
Bool(b)   == [t |-> "boolean", n |-> IF b THEN 1 ELSE 0, s |-> ""]
\* an object or array in a position where the code expects a primitive
Opaque    == [t |-> "object", n |-> 0, s |-> ""]

\* typeof v
TypeOf(v) == IF v.t = "null" THEN "object" ELSE v.t

IsNumber(v) == v.t = "number"
IsNaN(v)    == IsNumber(v) /\ v.s = "NaN"
\* Number.isFinite(v)
IsFinite(v) == IsNumber(v) /\ v.s \in {"finite", "-0"}

\* ToBoolean(v): the test of `v ? a : b`, `v || d`, `!v`, `a && b`
Truthy(v) ==
    CASE v.t = "undefined" -> FALSE
      [] v.t = "null"      -> FALSE
      [] v.t = "boolean"   -> v.n = 1
      [] v.t = "string"    -> v.s # ""
      [] v.t = "number"    -> ~(v.s \in {"NaN", "-0"}) /\ ~(v.s = "finite" /\ v.n = 0)
      [] OTHER             -> TRUE

\* a < b on numbers other than NaN (-0 and +0 compare equal)
NumLess(a, b) ==
    CASE a.s = "Infinity"  -> FALSE
      [] b.s = "-Infinity" -> FALSE
      [] a.s = "-Infinity" -> TRUE
      [] b.s = "Infinity"  -> TRUE
      [] OTHER             -> a.n < b.n

IsZero(v) == IsFinite(v) /\ v.n = 0

\* Math.min(a, b): NaN if either is NaN; -0 is smaller than +0
MathMin(a, b) ==
    CASE IsNaN(a) \/ IsNaN(b)   -> NaN
      [] IsZero(a) /\ IsZero(b) -> IF a.s = "-0" \/ b.s = "-0" THEN NegZero ELSE Num(0)
      [] NumLess(b, a)          -> b
      [] OTHER                  -> a

\* Math.max(a, b): NaN if either is NaN; +0 is larger than -0
MathMax(a, b) ==
    CASE IsNaN(a) \/ IsNaN(b)   -> NaN
      [] IsZero(a) /\ IsZero(b) -> IF a.s = "-0" /\ b.s = "-0" THEN NegZero ELSE Num(0)
      [] NumLess(a, b)          -> b
      [] OTHER                  -> a

Pow10(d) == CASE d = 0 -> 1 [] d = 1 -> 10 [] d = 2 -> 100 [] OTHER -> 1000

\* Number.prototype.toFixed(digits) on a number x: the decimal string, kept as
\* its sign, its magnitude in thousandths and, for NaN and the infinities,
\* the literal that String(x) gives.  For a finite x the magnitude is the
\* integer n for which n / 10^digits - |x| is closest to zero, the larger n
\* on a tie; the sign is "-" when x < 0 (so not for -0).
ToFixed(x, digits) ==
    IF ~IsFinite(x)
    THEN [lit |-> x.s, neg |-> FALSE, mag |-> 0]
    ELSE LET unit == 1000 \div Pow10(digits)
             abs  == IF x.n < 0 THEN 0 - x.n ELSE x.n
             n    == (abs + unit \div 2) \div unit
         IN  [lit |-> "", neg |-> x.n < 0, mag |-> n * unit]

\* Number(str) of a string produced by toFixed
NumberOf(str) ==
    CASE str.lit = "NaN"       -> NaN
      [] str.lit = "Infinity"  -> PosInf
      [] str.lit = "-Infinity" -> NegInf
      [] str.neg /\ str.mag = 0 -> NegZero
      [] str.neg               -> Num(0 - str.mag)
      [] OTHER                 -> Num(str.mag)

\* The outcome of evaluating an expression: a value, or a thrown exception.
Value(v) == [threw |-> FALSE, val |-> v]
Throw    == [threw |-> TRUE, val |-> Undefined]

\* Number(v.toFixed(digits)): only numbers have a toFixed method; on any
\* other value the call is a TypeError.
NumberToFixed(v, digits) ==
    IF IsNumber(v) THEN Value(NumberOf(ToFixed(v, digits))) ELSE Throw

----------------------------------------------------------------------------
(* The payloads handed to updateMap.                                       *)

\* A value of the hexagonData mapping (hexInfo): a primitive, or an object
\* with the properties it supplies.  A property the object does not supply
\* reads as undefined.
PrimEntry(p) == [prim |-> p, props |-> [score |-> Undefined]]
ObjEntry(r)  == [prim |-> Opaque, props |-> r]

\* hexInfo.f
Get(hexInfo, f) ==
    IF f \in DOMAIN hexInfo.props THEN hexInfo.props[f] ELSE Undefined

\* data.hexagonData: a primitive, an object (its own enumerable properties in
\* order) or an array (its elements in order).
HPrim(p)       == [prim |-> p, kind |-> "prim", items |-> <<>>]
HObject(items) == [prim |-> Opaque, kind |-> "object", items |-> items]
HArray(elems)  == [prim |-> Opaque, kind |-> "array", items |-> elems]

\* data: a primitive, or an object with a hexagonData property
DataPrim(p)  == [prim |-> p, hexagonData |-> HPrim(Undefined)]
DataObj(h)   == [prim |-> Opaque, hexagonData |-> h]
NoCall       == [prim |-> Str("no call yet"), hexagonData |-> HPrim(Undefined)]

\* Object.entries(h): the [key, value] pairs of h.  An object gives its own
\* properties, an array its elements under the keys "0", "1", ..., a string
\* its characters under the same keys, a number or boolean nothing; null and
\* undefined are a TypeError.
ObjectEntries(h) ==
    CASE h.kind = "object" -> Value(h.items)
      [] h.kind = "array"  ->
            Value([i \in 1..Len(h.items) |->
                      [key |-> ToString(i - 1), value |-> h.items[i].value]])
      [] h.prim.t = "string" ->
            Value([i \in 1..Len(h.prim.s) |->
                      [key |-> ToString(i - 1),
                       value |-> PrimEntry(Str(SubSeq(h.prim.s, i, i)))]])
      [] h.prim.t \in {"null", "undefined"} -> Throw
      [] OTHER -> Value(<<>>)

----------------------------------------------------------------------------
(* validateHexData                                                         *)

\* validateHexData that answers false when there is no data
validateHexData_RejectsNoData(data) ==
    IF ~Truthy(data.prim) THEN Value(FALSE)
    ELSE IF ~Truthy(data.hexagonData.prim)
            \/ TypeOf(data.hexagonData.prim) # "object" THEN Value(TRUE)
    ELSE LET hexEntries == ObjectEntries(data.hexagonData)
         IN  IF hexEntries.threw THEN Throw ELSE Value(TRUE)

\* Every path returns true; the loop over the entries only logs warnings.
validateHexData(data) ==
    IF ~Truthy(data.prim) THEN Value(TRUE)
    ELSE IF ~Truthy(data.hexagonData.prim)
            \/ TypeOf(data.hexagonData.prim) # "object" THEN Value(TRUE)
    ELSE LET hexEntries == ObjectEntries(data.hexagonData)
         IN  IF hexEntries.threw THEN Throw
             ELSE IF Len(hexEntries.val) = 0 THEN Value(TRUE)
             ELSE Value(TRUE)

----------------------------------------------------------------------------
(* transformBackendData                                                    *)

\* The .filter() callback: keeps an entry whose id is a non-empty string,
\* whose value is an object and whose score is a number other than NaN.
FilterEntry(e) ==
    /\ e.key # ""
    /\ Truthy(e.value.prim)
    /\ TypeOf(e.value.prim) = "object"
    /\ TypeOf(Get(e.value, "score")) = "number"
    /\ ~IsNaN(Get(e.value, "score"))

\* NormalizeScore without the clamp
NormalizeScore_NoClamp(score) == NumberOf(ToFixed(score, 2))

\* Math.max(0, Math.min(1, Number(score.toFixed(2))))
NormalizeScore(score) ==
    MathMax(Num(0), MathMin(Num(1000), NumberOf(ToFixed(score, 2))))

\* v ? Number(v.toFixed(digits)) : undefined            (part_003)
TruthyToFixed(v, digits) ==
    IF Truthy(v) THEN NumberToFixed(v, digits) ELSE Value(Undefined)

\* v || undefined
OrUndefined(v) == IF Truthy(v) THEN v ELSE Undefined

\* v !== null ? v : undefined                            (DatacenterMap.tsx)
NotNullCopy(v) == IF v # Null THEN v ELSE Undefined

\* v !== null && v !== undefined ? Number(v.toFixed(digits)) : undefined
PresentToFixed(v, digits) ==
    IF v # Null /\ v # Undefined THEN NumberToFixed(v, digits) ELSE Value(Undefined)

\* The .map() callback of part_003 on one kept entry: the cell, or the
\* exception raised while building it.
MapEntryV1(e) ==
    LET hexInfo == e.value
        avgTemp               == TruthyToFixed(Get(hexInfo, "avgTemp"), 1)
        gridDistance          == TruthyToFixed(Get(hexInfo, "gridDistance"), 1)
        internetSpeed         == TruthyToFixed(Get(hexInfo, "internetSpeed"), 0)
        internetSpeedNorm     == TruthyToFixed(Get(hexInfo, "internetSpeedNorm"), 2)
        gridDistanceNorm      == TruthyToFixed(Get(hexInfo, "gridDistanceNorm"), 2)
        nbGridConnectionsNorm == TruthyToFixed(Get(hexInfo, "nbGridConnectionsNorm"), 2)
        avgTempNorm           == TruthyToFixed(Get(hexInfo, "avgTempNorm"), 2)
    IN  IF avgTemp.threw \/ gridDistance.threw \/ internetSpeed.threw
           \/ internetSpeedNorm.threw \/ gridDistanceNorm.threw
           \/ nbGridConnectionsNorm.threw \/ avgTempNorm.threw
        THEN Throw
        ELSE Value([hex                   |-> e.key,
                    score                 |-> NormalizeScore(Get(hexInfo, "score")),
                    avgTemp               |-> avgTemp.val,
                    gridDistance          |-> gridDistance.val,
                    internetSpeed         |-> internetSpeed.val,
                    nbGridConnections     |-> OrUndefined(Get(hexInfo, "nbGridConnections")),
                    internetSpeedNorm     |-> internetSpeedNorm.val,
                    gridDistanceNorm      |-> gridDistanceNorm.val,
                    nbGridConnectionsNorm |-> nbGridConnectionsNorm.val,
                    avgTempNorm           |-> avgTempNorm.val,
                    opposition            |-> OrUndefined(Get(hexInfo, "opposition"))])

\* The .map() callback of DatacenterMap.tsx on one kept entry.
MapEntryV2(e) ==
    LET hexInfo == e.value
        connection_normalized_score ==
            PresentToFixed(Get(hexInfo, "connection_normalized_score"), 2)
        latency_normalized_score ==
            PresentToFixed(Get(hexInfo, "latency_normalized_score"), 2)
        temperature_normalized_score ==
            PresentToFixed(Get(hexInfo, "temperature_normalized_score"), 2)
    IN  IF connection_normalized_score.threw \/ latency_normalized_score.threw
           \/ temperature_normalized_score.threw
        THEN Throw
        ELSE Value([hex               |-> e.key,
                    score             |-> NormalizeScore(Get(hexInfo, "score")),
                    connection_points |-> NotNullCopy(Get(hexInfo, "connection_points")),
                    latency_ms        |-> NotNullCopy(Get(hexInfo, "latency_ms")),
                    avg_temperature   |-> NotNullCopy(Get(hexInfo, "avg_temperature")),
                    connection_normalized_score  |-> connection_normalized_score.val,
                    latency_normalized_score     |-> latency_normalized_score.val,
                    temperature_normalized_score |-> temperature_normalized_score.val,
                    opposition        |-> OrUndefined(Get(hexInfo, "opposition"))])

MapEntry(variant, e) == IF variant = "v1" THEN MapEntryV1(e) ELSE MapEntryV2(e)

\* transformBackendData(data): the new HexData[], or the exception that the
\* .map() callback raised (the array under construction is then lost).
transformBackendData(variant, data) ==
    IF ~Truthy(data.prim) \/ ~Truthy(data.hexagonData.prim) THEN Value(<<>>)
    ELSE LET entries == ObjectEntries(data.hexagonData)
         IN  IF entries.threw THEN Throw
             ELSE LET kept  == SelectSeq(entries.val, FilterEntry)
                      cells == [i \in 1..Len(kept) |-> MapEntry(variant, kept[i])]
                  IN  IF \E i \in 1..Len(kept) : cells[i].threw
                      THEN [threw |-> TRUE, val |-> <<>>]
                      ELSE Value([i \in 1..Len(kept) |-> cells[i].val])

----------------------------------------------------------------------------
(* The inputs the model draws from.                                        *)

\* Longest hexagonData mapping.
MaxEntries == 2

RandomDraws == {0, 250, 999}

ScoreNums ==
    (0 - Spread .. Spread) \cup (1000 - Spread .. 1000 + Spread)
        \cup {0 - 1500, 504, 505, 1500}

ScoreValues ==
    {Num(k) : k \in ScoreNums}
        \cup {NegZero, NaN, PosInf, NegInf, Undefined, Null, Str("0.5"), Bool(TRUE)}

AuxValues == {Null, Num(0), Num(12345), NaN, PosInf, Str("12")}

OppositionValues ==
    {Str("low"), Str("medium"), Str("high"), Str("extreme"), Num(1000), Null}

AuxFieldsV1 ==
    {"avgTemp", "gridDistance", "internetSpeed", "nbGridConnections",
     "internetSpeedNorm", "gridDistanceNorm", "nbGridConnectionsNorm", "avgTempNorm"}

AuxFieldsV2 ==
    {"connection_points", "latency_ms", "avg_temperature",
     "connection_normalized_score", "latency_normalized_score",
     "temperature_normalized_score"}

AuxFields(variant) == IF variant = "v1" THEN AuxFieldsV1 ELSE AuxFieldsV2

\* hexInfo values of a one-entry mapping: every sampled score with no other
\* field, and the score 0.5 with one auxiliary field or opposition supplied.
Entries(variant) ==
    {ObjEntry([score |-> s]) : s \in ScoreValues}
        \cup {ObjEntry((f :> v) @@ [score |-> Num(500)]) :
                 f \in AuxFields(variant), v \in AuxValues}
        \cup {ObjEntry([score |-> Num(500), opposition |-> o]) : o \in OppositionValues}
        \cup {PrimEntry(Null), PrimEntry(Str("cell")), PrimEntry(Num(500))}

\* hexInfo values of the longer mappings and of arrays: a valid cell, a cell
\* with a bad score and a cell with a string in a rounded field.
Companions(variant) ==
    {ObjEntry([score |-> Num(700)]),
     ObjEntry([score |-> Str("x")]),
     ObjEntry(((IF variant = "v1" THEN "avgTemp" ELSE "connection_normalized_score")
                  :> Str("hot")) @@ [score |-> Num(300)])}

HexKey(i) == "h" \o ToString(i)

HexagonDataValues(variant) ==
    {HPrim(p) : p \in {Undefined, Null, Str(""), Str("ab"), Num(0), Num(5000),
                       Bool(TRUE), Bool(FALSE)}}
        \cup {HObject(<<>>), HArray(<<>>)}
        \cup {HObject(<<[key |-> HexKey(1), value |-> e]>>) : e \in Entries(variant)}
        \cup {HObject(<<[key |-> "", value |-> ObjEntry([score |-> Num(700)])]>>)}
        \cup UNION {{HObject([i \in 1..n |-> [key |-> HexKey(i), value |-> f[i]]]) :
                        f \in [1..n -> Companions(variant)]} : n \in 2..MaxEntries}
        \cup {HArray(<<[key |-> "", value |-> e]>>) : e \in Companions(variant)}

DataValues(variant) ==
    {DataPrim(p) : p \in {Null, Undefined, Num(5000), Str("text"), Bool(FALSE)}}
        \cup {DataObj(h) : h \in HexagonDataValues(variant)}

DataInputsV1 == DataValues("v1")
DataInputsV2 == DataValues("v2")

DataInputs(variant) == IF variant = "v1" THEN DataInputsV1 ELSE DataInputsV2

Ids(batch) == {batch[i].hex : i \in 1..Len(batch)}

\* transformBackendData on every input of the model, tabulated once per
\* variant (x @@ <<>> is x, stored as an explicit table).
TransformedV1 == [d \in DataInputsV1 |-> transformBackendData("v1", d)] @@ <<>>
TransformedV2 == [d \in DataInputsV2 |-> transformBackendData("v2", d)] @@ <<>>

Transformed(variant, data) ==
    IF variant = "v1" THEN TransformedV1[data] ELSE TransformedV2[data]

----------------------------------------------------------------------------
(* The component's state and the Map Update Protocol.                      *)

frenchCities ==
    <<"Paris", "Lyon", "Marseille", "Nantes", "Bordeaux", "Toulouse",
      "Reims", "Grenoble", "Lille", "Rennes", "Angers", "Nice">>

\* Math.floor(x) of a non-negative number in thousandths
Floor(k) == (k \div 1000) * 1000

\* parseFloat(x.toFixed(digits))
ParseFloatFixed(k, digits) == NumberOf(ToFixed(Num(k), digits))

Oppositions == <<"low", "medium", "high">>

\* generateSampleFranceHexagons() with Math.random() returning r / 1000.
\* latLngToCell gives each city its H3 index, an opaque string that stands
\* here under the city's name.
generateSampleFranceHexagons(variant, r) ==
    [i \in 1..Len(frenchCities) |->
        IF variant = "v1"
        THEN [hex                   |-> frenchCities[i],
              score                 |-> ParseFloatFixed(r * 2 - 1000, 2),
              avgTemp               |-> ParseFloatFixed(8000 + r * 15, 1),
              gridDistance          |-> ParseFloatFixed(r * 10, 1),
              internetSpeed         |-> Num(Floor(r * 500 + 300000)),
              nbGridConnections     |-> Num(Floor(r * 3 + 2000)),
              internetSpeedNorm     |-> Undefined,
              gridDistanceNorm      |-> Undefined,
              nbGridConnectionsNorm |-> Undefined,
              avgTempNorm           |-> Undefined,
              opposition            |-> Str(Oppositions[Floor(r * 3) \div 1000 + 1])]
        ELSE [hex               |-> frenchCities[i],
              score             |-> ParseFloatFixed(r, 2),
              connection_points |-> Num(Floor(r * 5 + 1000)),
              latency_ms        |-> Num(Floor(r * 50 + 10000)),
              avg_temperature   |-> ParseFloatFixed(8000 + r * 15, 1),
              connection_normalized_score  |-> Num(r),
              latency_normalized_score     |-> Num(r),
              temperature_normalized_score |-> Num(r),
              opposition        |-> Str(Oppositions[Floor(r * 3) \div 1000 + 1])]]

\* TryBlock with setHexData(prev => [...prev, ...transformedData])
TryBlock_Merge(variant, data, curHexData, curIsLoading) ==
    LET transformedData == Transformed(variant, data)
    IN  IF transformedData.threw
        THEN [hexData |-> curHexData, isLoading |-> TRUE, threw |-> TRUE]
        ELSE [hexData |-> curHexData \o transformedData.val, isLoading |-> TRUE,
              threw |-> FALSE]

\* The try block of updateMap, run from the state (curHexData,
\* curIsLoading): the state it leaves and whether it ended in an exception.
\* setHexData is reached only when transformBackendData returned.
TryBlock(variant, data, curHexData, curIsLoading) ==
    LET valid == validateHexData(data)
        transformedData == Transformed(variant, data)
    IN  IF valid.threw
        THEN [hexData |-> curHexData, isLoading |-> curIsLoading, threw |-> TRUE]
        ELSE IF ~valid.val
        THEN [hexData |-> curHexData, isLoading |-> curIsLoading, threw |-> FALSE]
        ELSE IF transformedData.threw
        THEN [hexData |-> curHexData, isLoading |-> TRUE, threw |-> TRUE]
        ELSE [hexData |-> transformedData.val, isLoading |-> TRUE, threw |-> FALSE]

\* CatchBlock that logs and rethrows
CatchBlock_Rethrow(o) == o

\* CatchBlock that also clears the batch: setHexData([])
CatchBlock_ClearsBatch(o) ==
    IF o.threw THEN [o EXCEPT !.threw = FALSE, !.hexData = <<>>] ELSE o

\* catch (error) { console.error(...) }: the exception is logged and ends here.
CatchBlock(o) == [o EXCEPT !.threw = FALSE]

\* finally { setIsLoading(false) }
FinallyBlock(o) == [o EXCEPT !.isLoading = FALSE]

\* updateMap(data): the state it leaves and whether an exception escaped to
\* the caller.
updateMap(variant, data, curHexData, curIsLoading) ==
    LET o == FinallyBlock(CatchBlock(TryBlock(variant, data, curHexData, curIsLoading)))
    IN  [hexData |-> o.hexData, isLoading |-> o.isLoading, escaped |-> o.threw]

----------------------------------------------------------------------------
(* The colour and elevation mapper: the accessors that the hexagon layers  *)
(* hand to deck.gl.  DatacenterMap.tsx has four layers (score, connection, *)
(* latency, temperature), of which the one named by activeLayer is drawn;  *)
(* part_003 has the score layer alone.  The arithmetic is exact: a value   *)
(* num / den is rounded from its numerator and denominator.                *)

LayerTypes == {"score", "connection", "latency", "temperature"}

\* Math.round(num / den) of a non-negative quotient: the nearest integer,
\* the larger one on a tie.
MathRound(num, den) == (2 * num + den) \div (2 * den)

\* GradientColor whose middle band starts from blue 60
GradientColor_Step(nv) ==
    IF nv < 300
    THEN <<255, MathRound(100 * 300 + 155 * nv, 300), 50, 220>>
    ELSE IF nv < 700
    THEN <<255, MathRound(255, 1), MathRound(60 * 400 + 195 * (nv - 300), 400), 220>>
    ELSE <<MathRound(255 * 300 - 100 * (nv - 700), 300), 255,
           MathRound(255 * 300 - 155 * (nv - 700), 300), 220>>

\* GradientColor whose bands change at 0.35 and 0.7
GradientColor_Bands(nv) ==
    IF nv < 350
    THEN <<255, MathRound(100 * 300 + 155 * nv, 300), 50, 220>>
    ELSE IF nv < 700
    THEN <<255, MathRound(255, 1), MathRound(50 * 400 + 205 * (nv - 300), 400), 220>>
    ELSE <<MathRound(255 * 300 - 100 * (nv - 700), 300), 255,
           MathRound(255 * 300 - 155 * (nv - 700), 300), 220>>

\* The body that the four getFillColor accessors share, on the clamped value
\* nv (thousandths, 0..1000):
\*   if (nv < 0.3)      { t = nv / 0.3;         [255, round(100 + 155 t), 50, 220] }
\*   else if (nv < 0.7) { t = (nv - 0.3) / 0.4; [255, round(255), round(50 + 205 t), 220] }
\*   else               { t = (nv - 0.7) / 0.3; [round(255 - 100 t), 255, round(255 - 155 t), 220] }
GradientColor(nv) ==
    IF nv < 300
    THEN <<255, MathRound(100 * 300 + 155 * nv, 300), 50, 220>>
    ELSE IF nv < 700
    THEN <<255, MathRound(255, 1), MathRound(50 * 400 + 205 * (nv - 300), 400), 220>>
    ELSE <<MathRound(255 * 300 - 100 * (nv - 700), 300), 255,
           MathRound(255 * 300 - 155 * (nv - 700), 300), 220>>

\* v || 0
OrZero(v) == IF Truthy(v) THEN v ELSE Num(0)

\* The field of the cell d that the accessors of a layer read: d.score in
\* the score layer, (d.<layer>_normalized_score || 0) in the three others.
LayerValue(layer, d) ==
    CASE layer = "score"       -> d.score
      [] layer = "connection"  -> OrZero(d.connection_normalized_score)
      [] layer = "latency"     -> OrZero(d.latency_normalized_score)
      [] layer = "temperature" -> OrZero(d.temperature_normalized_score)

\* getFillColor of a layer: the gradient of Math.max(0, Math.min(1, value)).
\* With a NaN value both comparisons fail and the last band computes NaN
\* for red and blue (written -1 here).
getFillColor(layer, d) ==
    LET normalizedValue == MathMax(Num(0), MathMin(Num(1000), LayerValue(layer, d)))
    IN  IF IsNaN(normalizedValue) THEN <<0 - 1, 255, 0 - 1, 220>>
        ELSE GradientColor(normalizedValue.n)

\* getLineColor of a layer: value > 0.8 ? [255,255,255,120] : [255,255,255,60]
getLineColor(layer, d) ==
    LET value == LayerValue(layer, d)
    IN  IF ~IsNaN(value) /\ NumLess(Num(800), value)
        THEN <<255, 255, 255, 120>> ELSE <<255, 255, 255, 60>>

\* x * 5000
Times5000(x) ==
    CASE IsNaN(x)             -> NaN
      [] x.s = "Infinity"     -> PosInf
      [] x.s = "-Infinity"    -> NegInf
      [] x.s = "-0"           -> NegZero
      [] OTHER                -> Num(x.n * 5000)

\* getElevation that extrudes the distance from the middle score
getElevation_Folded(layer, d) ==
    LET value == LayerValue(layer, d)
    IN  IF IsFinite(value) /\ value.n >= 500
        THEN Times5000(value) ELSE Times5000(Num(1000 - value.n))

\* getElevation in which the latency layer extrudes 1 - value
getElevation_LatencyInverted(layer, d) ==
    IF layer = "latency" /\ IsFinite(LayerValue(layer, d))
    THEN Times5000(Num(1000 - LayerValue(layer, d).n))
    ELSE Times5000(LayerValue(layer, d))

\* getElevation of a layer: value * 5000 (the value is not clamped)
getElevation(layer, d) == Times5000(LayerValue(layer, d))

\* What the accessors of a layer return for the cell d.
Accessors(layer, d) ==
    [fill      |-> getFillColor(layer, d),
     line      |-> getLineColor(layer, d),
     elevation |-> getElevation(layer, d)]

\* The cells the mapper is applied to.  A score is what the normalizer or
\* the sample generator leaves: hundredths, in [0, 1] (in [-1, 1] for the
\* sample of part_003).  A sub-score of DatacenterMap.tsx is absent, or any
\* number: the sample generator leaves Math.random() itself and the
\* normalizer rounds without clamping.
DisplayScores(variant) ==
    {Num(10 * h) : h \in (IF variant = "v1" THEN 0 - 100 ELSE 0)..100}
        \cup (IF variant = "v1" THEN {NegZero} ELSE {})

SubScores ==
    {Num(k) : k \in 0..1000}
        \cup {Undefined, NaN, NegZero, PosInf, NegInf,
              Num(0 - 500), Num(0 - 10), Num(1010), Num(1500)}

RenderCell(score, sub) ==
    [hex |-> "cell", score |-> score,
     connection_normalized_score  |-> sub,
     latency_normalized_score     |-> sub,
     temperature_normalized_score |-> sub]

RenderCellsV1 == {RenderCell(a, Undefined) : a \in DisplayScores("v1")}

RenderCellsV2 ==
    {RenderCell(a, b) : a \in DisplayScores("v2"),
                        b \in {Undefined, NaN, Num(0 - 500), Num(500), Num(1500)}}
        \cup {RenderCell(Num(500), b) : b \in SubScores}

RenderCells(variant) == IF variant = "v1" THEN RenderCellsV1 ELSE RenderCellsV2

\* No cell is drawn.
NotShown == [fill |-> <<>>, line |-> <<>>, elevation |-> Undefined]

----------------------------------------------------------------------------
(* What the component renders over the base map: the hexagon layers, the   *)
(* loading overlay and the empty-state notice.                             *)

\* {isLoading && (<div>Updating map data...</div>)}
LoadingOverlay(loading) == loading

\* HexagonLayers in which the score layer does not test activeLayer
HexagonLayers_ScoreAlways(variant, batch, loading, layer) ==
    IF Len(batch) > 0 /\ ~loading
    THEN (IF variant = "v2" THEN {layer} ELSE {}) \cup {"score"}
    ELSE {}

\* The hexagon layers in the layers array: in DatacenterMap.tsx each of the
\* four is there under hexData.length > 0 && !isLoading && activeLayer ===
\* its name, in part_003 the one layer under hexData.length > 0 && !isLoading.
HexagonLayers(variant, batch, loading, layer) ==
    IF variant = "v2"
    THEN {l \in LayerTypes : Len(batch) > 0 /\ ~loading /\ layer = l}
    ELSE IF Len(batch) > 0 /\ ~loading THEN {"score"} ELSE {}

\* {hexData.length === 0 && !isLoading && (<div>No datacenter data available</div>)}
EmptyNotice(batch, loading) == Len(batch) = 0 /\ ~loading

----------------------------------------------------------------------------
(* The mock analyze route (src/unnamed/part_000): analyzeMessage,          *)
(* generateMockHexagonData and POST.                                       *)

\* The content of MOCK_HEX_IDS when the module is loaded.
MockHexIds ==
    <<"871fb4662ffffff", "871f90209ffffff", "873968152ffffff", "87184584effffff",
      "8739601aeffffff", "871fb5231ffffff", "871f85432ffffff", "873a68291ffffff",
      "871fb6789ffffff", "871f91234ffffff", "87186b6caffffff", "871f9ed92ffffff">>

\* The successive values of Math.random() in one call, in thousandths: the
\* k-th value of a stream is start + k * stride (mod 1).  Every value is a
\* multiple of 0.005, so that each product below is a whole number of
\* thousandths.
RandomStreams ==
    {[start |-> 0,   stride |-> 0],  [start |-> 200, stride |-> 35],
     [start |-> 400, stride |-> 35], [start |-> 505, stride |-> 0],
     [start |-> 700, stride |-> 35], [start |-> 995, stride |-> 0],
     [start |-> 995, stride |-> 35]}

Draw(stream, k) == (stream.start + k * stream.stride) % 1000

\* Math.random() * a, with a in thousandths
RandomTimes(r, a) == (r * a) \div 1000

\* Array.prototype.sort with the comparator () => 0.5 - Math.random(), which
\* is not a consistent comparator: the array is permuted in place, in an
\* order the engine chooses.  The model draws the order from the array as it
\* is, reversed, and rotated by one place.
Reverse(a) == [i \in 1..Len(a) |-> a[Len(a) + 1 - i]]

Rotate(a, k) == [i \in 1..Len(a) |-> a[((i - 1 + k) % Len(a)) + 1]]

\* A sort that draws every place anew from the first two elements
SortOutcomes_WithRepeats(a) ==
    {a, [i \in 1..Len(a) |-> a[((i - 1) % 2) + 1]]}

SortOutcomes(a) == {a, Reverse(a), Rotate(a, 1)}

Scenarios == {"good", "bad", "mixed"}

\* The score drawn in every scenario as in the last branch
MockScore_Unscaled(scenario, r) == r

\* The score that a scenario draws from Math.random() = r.  The last branch
\* is taken by every scenario other than 'good' and 'bad'.
MockScore(scenario, r) ==
    CASE scenario = "good" -> RandomTimes(r, 400) + 600
      [] scenario = "bad"  -> RandomTimes(r, 400) + 0
      [] OTHER             -> r

\* The auxiliary values drawn in every scenario as in the last branch
MockAux_Unscaled(scenario, r) ==
    [avgTemp           |-> RandomTimes(r[1], 15000) + 8000,
     gridDistance      |-> RandomTimes(r[2], 10000),
     internetSpeed     |-> RandomTimes(r[3], 700000) + 200000,
     nbGridConnections |-> Floor(RandomTimes(r[4], 4000)) + 1000,
     opposition        |-> Oppositions[Floor(RandomTimes(r[5], 3000)) \div 1000 + 1]]

\* The auxiliary values that a scenario draws from five values of
\* Math.random().
MockAux(scenario, r) ==
    CASE scenario = "good" ->
            [avgTemp           |-> RandomTimes(r[1], 5000) + 8000,
             gridDistance      |-> RandomTimes(r[2], 2000) + 500,
             internetSpeed     |-> RandomTimes(r[3], 200000) + 800000,
             nbGridConnections |-> Floor(RandomTimes(r[4], 3000)) + 3000,
             opposition        |-> IF r[5] > 700 THEN "medium" ELSE "low"]
      [] scenario = "bad" ->
            [avgTemp           |-> RandomTimes(r[1], 10000) + 20000,
             gridDistance      |-> RandomTimes(r[2], 8000) + 5000,
             internetSpeed     |-> RandomTimes(r[3], 200000) + 100000,
             nbGridConnections |-> Floor(RandomTimes(r[4], 2000)) + 1000,
             opposition        |-> IF r[5] > 300 THEN "high" ELSE "medium"]
      [] OTHER ->
            [avgTemp           |-> RandomTimes(r[1], 15000) + 8000,
             gridDistance      |-> RandomTimes(r[2], 10000),
             internetSpeed     |-> RandomTimes(r[3], 700000) + 200000,
             nbGridConnections |-> Floor(RandomTimes(r[4], 4000)) + 1000,
             opposition        |-> Oppositions[Floor(RandomTimes(r[5], 3000)) \div 1000 + 1]]

\* if (score > 0.8 && index < 3) in the 'good' branch, if (score > 0.7 &&
\* index < 2) in the last branch: the test is on the score as drawn.
MockHighlight(scenario, score, index) ==
    CASE scenario = "good" -> score > 800 /\ index < 3
      [] scenario = "bad"  -> FALSE
      [] OTHER             -> score > 700 /\ index < 2

\* parseFloat(q.toFixed(2)) of the quotient q = num / den
QuotientToFixed2(num, den) == Num(((200 * num + den) \div (2 * den)) * 10)

\* Math.min(num / den, 1) as a quotient
MinOne(num, den) == IF num >= den THEN <<1, 1>> ELSE <<num, den>>

\* Math.max(0, num / den) as a quotient
MaxZero(num, den) == IF num <= 0 THEN <<0, 1>> ELSE <<num, den>>

\* The body of the forEach callback for the entry at `index`: whether the
\* entry is pushed to highlighted, and the value stored under its id.
MockEntry(scenario, stream, index) ==
    LET r(j)  == Draw(stream, 1 + 6 * index + j)
        score == MockScore(scenario, r(0))
        aux   == MockAux(scenario, <<r(1), r(2), r(3), r(4), r(5)>>)
        internetSpeedNorm     == MinOne(aux.internetSpeed, 1000 * 1000)
        gridDistanceNorm      == MaxZero(15000 - aux.gridDistance, 15000)
        nbGridConnectionsNorm == MinOne(aux.nbGridConnections, 5000)
        avgTempNorm           == MaxZero(25000 - (aux.avgTemp - 5000), 25000)
    IN  [highlighted |-> MockHighlight(scenario, score, index),
         value |-> ObjEntry(
            [score                 |-> ParseFloatFixed(score, 2),
             internetSpeed         |-> ParseFloatFixed(aux.internetSpeed, 0),
             gridDistance          |-> ParseFloatFixed(aux.gridDistance, 1),
             nbGridConnections     |-> Num(aux.nbGridConnections),
             avgTemp               |-> ParseFloatFixed(aux.avgTemp, 1),
             internetSpeedNorm     |-> QuotientToFixed2(internetSpeedNorm[1], internetSpeedNorm[2]),
             gridDistanceNorm      |-> QuotientToFixed2(gridDistanceNorm[1], gridDistanceNorm[2]),
             nbGridConnectionsNorm |-> QuotientToFixed2(nbGridConnectionsNorm[1], nbGridConnectionsNorm[2]),
             avgTempNorm           |-> QuotientToFixed2(avgTempNorm[1], avgTempNorm[2]),
             opposition            |-> Str(aux.opposition)])]

\* The entries of one call, for every scenario and stream.
MockEntries ==
    [scenario \in Scenarios, stream \in RandomStreams |->
        [i \in 1..Len(MockHexIds) |-> MockEntry(scenario, stream, i - 1)]] @@ <<>>

\* The object that the assignments data[ids[i]] = values[i] build: its keys
\* in the order of their first assignment, each with the value assigned last.
AssignAll(ids, values) ==
    LET First(i) == \A j \in 1..(i - 1) : ids[j] # ids[i]
        Last(i)  == CHOOSE j \in i..Len(ids) :
                        ids[j] = ids[i] /\ \A m \in (j + 1)..Len(ids) : ids[m] # ids[i]
        firsts   == SelectSeq([i \in 1..Len(ids) |-> i], First)
    IN  [n \in 1..Len(firsts) |->
            [key |-> ids[firsts[n]], value |-> values[Last(firsts[n])]]]

\* generateMockHexagonData(scenario), run on the pool as the sort left it.
generateMockHexagonData(scenario, sorted, stream) ==
    LET numHexagons    == Floor(RandomTimes(Draw(stream, 0), 6000)) \div 1000 + 6
        selectedHexIds == SubSeq(sorted, 1, numHexagons)
        entries        == MockEntries[scenario, stream]
        Pushed(i)      == entries[i].highlighted
        pushed         == SelectSeq([i \in 1..Len(selectedHexIds) |-> i], Pushed)
    IN  [hexagonData |-> HObject(AssignAll(selectedHexIds,
                            [i \in 1..Len(selectedHexIds) |-> entries[i].value])),
         highlighted |-> [n \in 1..Len(pushed) |-> selectedHexIds[pushed[n]]]]

\* String.prototype.toLowerCase
UpperCase == "ABCDEFGHIJKLMNOPQRSTUVWXYZ"
LowerCase == "abcdefghijklmnopqrstuvwxyz"

ToLowerChar(c) ==
    IF \E i \in 1..Len(UpperCase) : SubSeq(UpperCase, i, i) = c
    THEN LET i == CHOOSE i \in 1..Len(UpperCase) : SubSeq(UpperCase, i, i) = c
         IN  SubSeq(LowerCase, i, i)
    ELSE c

RECURSIVE ToLowerCase(_)
ToLowerCase(str) ==
    IF str = "" THEN ""
    ELSE ToLowerChar(SubSeq(str, 1, 1)) \o ToLowerCase(SubSeq(str, 2, Len(str)))

\* String.prototype.includes
Includes(str, word) ==
    \E i \in 1..(Len(str) - Len(word) + 1) : SubSeq(str, i, i + Len(word) - 1) = word

IncludesAny(str, words) == \E w \in words : Includes(str, w)

\* analyzeMessage(message): the scenario (the response text is named by the
\* branch that produced it).
analyzeMessage(message) ==
    LET lowerMessage == ToLowerCase(message)
    IN  IF IncludesAny(lowerMessage, {"best", "good", "optimal"})
        THEN [response |-> "optimal", scenario |-> "good"]
        ELSE IF IncludesAny(lowerMessage, {"temperature", "cool", "cold", "heat"})
        THEN [response |-> "temperature", scenario |-> "good"]
        ELSE IF IncludesAny(lowerMessage, {"internet", "speed", "connectivity", "bandwidth"})
        THEN [response |-> "internet", scenario |-> "good"]
        ELSE IF IncludesAny(lowerMessage, {"grid", "power", "electricity", "energy"})
        THEN [response |-> "grid", scenario |-> "good"]
        ELSE IF IncludesAny(lowerMessage, {"opposition", "resistance", "approval"})
        THEN [response |-> "opposition", scenario |-> "good"]
        ELSE IF IncludesAny(lowerMessage, {"worst", "bad", "avoid"})
        THEN [response |-> "avoid", scenario |-> "bad"]
        ELSE IF IncludesAny(lowerMessage, {"all", "show", "display", "overview"})
        THEN [response |-> "overview", scenario |-> "mixed"]
        ELSE [response |-> "default", scenario |-> "mixed"]

\* The body of a request as request.json() gives it: the call throws on a
\* body that is not JSON; JSON null is a body without properties, on which
\* body.message is a TypeError; an object has a message or none (undefined).
MalformedBody   == [kind |-> "malformed", message |-> Undefined]
NullBody        == [kind |-> "null", message |-> Undefined]
Body(message)   == [kind |-> "object", message |-> message]

Messages ==
    {"Best sites?", "worst areas", "show all", "hello", "avoid the heat"}

RequestBodies ==
    {Body(Str(m)) : m \in Messages}
        \cup {MalformedBody, NullBody, Body(Undefined), Body(Str("")), Body(Num(1000))}

\* The highlighted field of a response: absent, an array of ids, or a
\* mapping from ids to numbers (of which `ids` are the keys).
NoHighlighted           == [kind |-> "absent", ids |-> <<>>]
HighlightedArray(ids)   == [kind |-> "array", ids |-> ids]
HighlightedMapping(ids) == [kind |-> "mapping", ids |-> ids]

\* NextResponse.json({ error }, { status })
ErrorResponse(status, error) ==
    [status |-> status, error |-> error, response |-> Undefined,
     hexagonData |-> HPrim(Undefined), highlighted |-> NoHighlighted]

\* NextResponse.json(responseData): a property that is undefined is left out
\* of the JSON text.
JsonResponse(response, hexagonData, highlighted) ==
    [status |-> 200, error |-> "", response |-> response,
     hexagonData |-> hexagonData, highlighted |-> highlighted]

NoRequest == [kind |-> "none", message |-> Undefined]

NoResponse == ErrorResponse(0, "no request yet")

\* analyzeMessage on the messages drawn.
AnalyzedMessages == [m \in Messages |-> analyzeMessage(m)] @@ <<>>

\* POST of part_000: the response, and MOCK_HEX_IDS as the call leaves it.
\* `sorted` is the order the sort gives, `stream` the values of
\* Math.random() in generateMockHexagonData.
MockPOST(body, pool, sorted, stream) ==
    IF body.kind # "object"
    THEN [pool |-> pool, response |-> ErrorResponse(500, "Internal server error")]
    ELSE IF ~Truthy(body.message) \/ TypeOf(body.message) # "string"
    THEN [pool |-> pool, response |-> ErrorResponse(400, "Invalid message format")]
    ELSE LET analyzed  == AnalyzedMessages[body.message.s]
             generated == generateMockHexagonData(analyzed.scenario, sorted, stream)
         IN  [pool |-> sorted,
              response |->
                JsonResponse(Str(analyzed.response), generated.hexagonData,
                    IF Len(generated.highlighted) > 0
                    THEN HighlightedArray(generated.highlighted)
                    ELSE NoHighlighted)]

----------------------------------------------------------------------------
(* The routes that call the external backend: POST of                      *)
(* src/src/app/api/analyze/route.ts ("analyze") and of                      *)
(* src/unnamed/part_001 ("research").                                      *)

Handlers == {"analyze", "research"}

\* What the POST to the backend's /information comes to: fetch rejects, the
\* status is not OK, the body is not JSON, or the body is the JSON value
\* `data`.
\* An InformationResponse, and the JSON value null in its place.
Information(response, hexagonData, highlighted) ==
    [prim |-> Opaque, response |-> response, hexagonData |-> hexagonData,
     highlighted |-> highlighted]

NullData ==
    [prim |-> Null, response |-> Undefined, hexagonData |-> HPrim(Undefined),
     highlighted |-> NoHighlighted]

NoBackend         == [kind |-> "none", status |-> 0, data |-> NullData]
NetworkError      == [kind |-> "network error", status |-> 0, data |-> NullData]
HttpError(status) == [kind |-> "not ok", status |-> status, data |-> NullData]
InvalidJson       == [kind |-> "invalid json", status |-> 200, data |-> NullData]
BackendOk(data)   == [kind |-> "ok", status |-> 200, data |-> data]

BackendCell(id, score) == [key |-> id, value |-> ObjEntry([score |-> Num(score)])]

BackendOutcomes ==
    {NetworkError, HttpError(500), HttpError(404), InvalidJson, BackendOk(NullData),
     BackendOk(Information(Str("answer"), HPrim(Undefined), NoHighlighted)),
     BackendOk(Information(Str("answer"), HPrim(Null), NoHighlighted)),
     BackendOk(Information(Str("answer"), HObject(<<>>), HighlightedArray(<<>>))),
     BackendOk(Information(Str("answer"),
                           HObject(<<BackendCell(MockHexIds[1], 900)>>),
                           HighlightedArray(<<MockHexIds[1]>>))),
     BackendOk(Information(Str("answer"),
                           HObject(<<BackendCell(MockHexIds[1], 900),
                                     BackendCell(MockHexIds[2], 100)>>),
                           HighlightedMapping(<<MockHexIds[1]>>)))}

\* callBackendAPI / callBackendResearchAPI: the data, or the exception that
\* the call logs and throws again.
callBackendAPI(backend) ==
    IF backend.kind = "ok"
    THEN [threw |-> FALSE, val |-> backend.data]
    ELSE [threw |-> TRUE, val |-> NullData]

\* highlighted of the analyze route: backendResponse.highlighted as it is
AnalyzeHighlighted(highlighted) == highlighted

\* ResearchHighlighted that hands on backendResponse.highlighted as it is
ResearchHighlighted_AsIs(highlighted) == highlighted

\* highlighted of the research route:
\*   backendResponse.highlighted ? Object.keys(backendResponse.highlighted) : undefined
\* An empty array is truthy; the keys of an array are its indices.
ResearchHighlighted(highlighted) ==
    CASE highlighted.kind = "absent"  -> NoHighlighted
      [] highlighted.kind = "mapping" -> HighlightedArray(highlighted.ids)
      [] highlighted.kind = "array"   ->
            HighlightedArray([i \in 1..Len(highlighted.ids) |-> ToString(i - 1)])

\* The try block around the backend call: the response, or the exception
\* raised by the call or by reading a property of a null result.
BackendBlock(handler, backend) ==
    LET backendResponse == callBackendAPI(backend)
    IN  IF backendResponse.threw \/ backendResponse.val.prim = Null
        THEN [threw |-> TRUE, val |-> NoResponse]
        ELSE LET data == backendResponse.val
             IN  [threw |-> FALSE, val |-> JsonResponse(data.response,
                        IF Truthy(data.hexagonData.prim)
                        THEN data.hexagonData ELSE HObject(<<>>),
                        IF handler = "analyze"
                        THEN AnalyzeHighlighted(data.highlighted)
                        ELSE ResearchHighlighted(data.highlighted))]

\* generateFallbackResponse(message) of route.ts: a canned text chosen by
\* the message's keywords, no cells, no highlighted ids.
generateFallbackResponse(message) ==
    LET lowerMessage == ToLowerCase(message)
        response ==
            IF IncludesAny(lowerMessage, {"best", "good", "optimal"}) THEN "optimal"
            ELSE IF Includes(lowerMessage, "temperature") THEN "temperature"
            ELSE IF IncludesAny(lowerMessage, {"internet", "connectivity"}) THEN "internet"
            ELSE IF IncludesAny(lowerMessage, {"grid", "power"}) THEN "grid"
            ELSE "default"
    IN  JsonResponse(Str(response), HObject(<<>>), HighlightedArray(<<>>))

\* generateResearchFallback that returns no cells
generateResearchFallback_Empty(message) ==
    JsonResponse(Str("research"), HObject(<<>>), HighlightedArray(<<>>))

\* generateResearchFallback(message) of part_001: a canned text chosen by
\* the message's keywords, with the two cells of sampleHexagonData, the
\* first of them highlighted.
generateResearchFallback(message) ==
    LET lowerMessage == ToLowerCase(message)
        response ==
            IF IncludesAny(lowerMessage, {"legislation", "legal"}) THEN "legal"
            ELSE IF IncludesAny(lowerMessage, {"opposition", "community"}) THEN "community"
            ELSE "research"
        sampleHexagonData ==
            HObject(<<[key |-> "871fb4662ffffff",
                       value |-> ObjEntry(
                          [score |-> Num(600), connection_points |-> Num(3000),
                           latency_ms |-> Num(25000), avg_temperature |-> Num(15500),
                           connection_normalized_score |-> Num(600),
                           latency_normalized_score |-> Num(500),
                           temperature_normalized_score |-> Num(600),
                           opposition |-> Str("medium")])],
                      [key |-> "871f90209ffffff",
                       value |-> ObjEntry(
                          [score |-> Num(800), connection_points |-> Num(4000),
                           latency_ms |-> Num(18000), avg_temperature |-> Num(12200),
                           connection_normalized_score |-> Num(800),
                           latency_normalized_score |-> Num(750),
                           temperature_normalized_score |-> Num(800),
                           opposition |-> Str("low")])]>>)
    IN  JsonResponse(Str(response), sampleHexagonData,
                     HighlightedArray(<<"871fb4662ffffff">>))

\* The fallbacks on the messages drawn.
FallbackResponses ==
    [handler \in Handlers, m \in Messages |->
        IF handler = "analyze"
        THEN generateFallbackResponse(m) ELSE generateResearchFallback(m)] @@ <<>>

\* POST of a route that calls the backend.
RoutePOST(handler, body, backend) ==
    IF body.kind # "object"
    THEN ErrorResponse(500, "Internal server error")
    ELSE IF ~Truthy(body.message) \/ TypeOf(body.message) # "string"
    THEN ErrorResponse(400, "Invalid message format")
    ELSE LET attempt == BackendBlock(handler, backend)
         IN  IF attempt.threw
             THEN FallbackResponses[handler, body.message.s]
             ELSE attempt.val

----------------------------------------------------------------------------
(* The chat (src/src/app/components/Chat.tsx and its earlier copy in       *)
(* src/unnamed/part_002, which differ in the markdown flag of a message    *)
(* alone) and handleMapUpdate of src/src/app/page.tsx.                     *)

\* How many messages the user sends in a run of the model.
MaxSends == 2

SAMPLE_QUERIES == <<"Show me the best locations">>

\* What the user types into the input field: blanks, a text between blanks.
InputTexts == {"  ", " any site? "}

\* The argument of handleSendMessage: none (the send button and the Enter
\* key) or a sample query.
SendArguments == {Undefined} \cup {Str(SAMPLE_QUERIES[i]) : i \in 1..Len(SAMPLE_QUERIES)}

RECURSIVE TrimStart(_)
TrimStart(s) ==
    IF Len(s) > 0 /\ SubSeq(s, 1, 1) = " " THEN TrimStart(SubSeq(s, 2, Len(s))) ELSE s

RECURSIVE TrimEnd(_)
TrimEnd(s) ==
    IF Len(s) > 0 /\ SubSeq(s, Len(s), Len(s)) = " "
    THEN TrimEnd(SubSeq(s, 1, Len(s) - 1)) ELSE s

\* String.prototype.trim
Trim(s) == TrimEnd(TrimStart(s))

\* A message of the transcript (its id and timestamp are not modelled).
Message(type, content) == [type |-> type, content |-> content]

Apology == Str("Sorry, I encountered an error processing your request. Please try again.")

\* addMessage: setMessages(prev => [...prev, newMessage])
addMessage(prev, type, content) == Append(prev, Message(type, content))

\* What the request comes to: fetch rejects, the status is not OK, the body
\* is not JSON, or the body is JSON: null, or an object with a response text
\* and possibly hexagonData.
FetchRejects      == [kind |-> "rejects", status |-> 0, response |-> Undefined,
                      hexagonData |-> HPrim(Undefined)]
HttpNotOk(status) == [kind |-> "not ok", status |-> status, response |-> Undefined,
                      hexagonData |-> HPrim(Undefined)]
BodyUnreadable    == [kind |-> "unreadable", status |-> 200, response |-> Undefined,
                      hexagonData |-> HPrim(Undefined)]
JsonNull          == [kind |-> "null", status |-> 200, response |-> Undefined,
                      hexagonData |-> HPrim(Undefined)]
JsonObject(response, h) ==
    [kind |-> "object", status |-> 200, response |-> response, hexagonData |-> h]

\* The hexagonData of the responses of the model: absent, null, other
\* primitives, empty and non-empty mappings and arrays.
ChatHexagonData ==
    {HPrim(Undefined), HPrim(Null), HPrim(Str("ab")), HPrim(Num(5000)),
     HObject(<<>>),
     HObject(<<[key |-> HexKey(1), value |-> ObjEntry([score |-> Num(504)])]>>),
     HArray(<<[key |-> "", value |-> ObjEntry([score |-> Num(700)])]>>)}

ChatOutcomes ==
    {FetchRejects, HttpNotOk(500), BodyUnreadable, JsonNull}
        \cup {JsonObject(Str("answer"), h) : h \in ChatHexagonData}

\* Object.keys(h).length of a value that is not null or undefined
KeysLength(h) == Len(ObjectEntries(h).val)

\* No setTimeout callback of handleMapUpdate is waiting.
NoTimers == <<>>

\* handleMapUpdate whose callback runs before those that already wait
handleMapUpdate_NewestFirst(waiting, hexagonData, at) ==
    <<[at   |-> at,
       data |-> DataObj(IF Truthy(hexagonData.prim) THEN hexagonData
                        ELSE HObject(<<>>))]>> \o waiting

\* handleMapUpdate(hexagonData) of page.tsx: setTimeout(() =>
\* mapRef.current.updateMap({hexagonData: hexagonData || {}}), 0).  The
\* callback joins the timers that wait, after those set before it; `at' is
\* the place in the transcript of the message whose answer it carries.
handleMapUpdate(waiting, hexagonData, at) ==
    Append(waiting,
           [at   |-> at,
            data |-> DataObj(IF Truthy(hexagonData.prim) THEN hexagonData
                             ELSE HObject(<<>>))])

\* The state of the chat that handleSendMessage reads and writes.
ChatState(msgs, input, loading, flight, waiting) ==
    [messages |-> msgs, inputValue |-> input, isLoading |-> loading,
     inFlight |-> flight, timers |-> waiting]

\* handleSendMessage that sends while a request is in flight
handleSendMessage_NoLoadingGuard(c, message) ==
    LET messageToSend == IF Truthy(message) THEN message.s ELSE Trim(c.inputValue)
    IN  IF messageToSend = "" THEN [accepted |-> FALSE, chat |-> c]
        ELSE LET msgs == addMessage(c.messages, "user", Str(messageToSend))
             IN  [accepted |-> TRUE,
                  chat |-> ChatState(msgs, "", TRUE,
                                     c.inFlight \cup {[at |-> Len(msgs),
                                                       message |-> messageToSend]},
                                     c.timers)]

\* handleSendMessage(message) up to its first await: the guard, the user's
\* message, isLoading, and the request that fetch sends.
handleSendMessage(c, message) ==
    LET messageToSend == IF Truthy(message) THEN message.s ELSE Trim(c.inputValue)
    IN  IF messageToSend = "" \/ c.isLoading THEN [accepted |-> FALSE, chat |-> c]
        ELSE LET msgs == addMessage(c.messages, "user", Str(messageToSend))
             IN  [accepted |-> TRUE,
                  chat |-> ChatState(msgs, "", TRUE,
                                     c.inFlight \cup {[at |-> Len(msgs),
                                                       message |-> messageToSend]},
                                     c.timers)]

\* SendTry that calls onMapUpdate without testing hexagonData
SendTry_NoTest(c, request, outcome) ==
    IF outcome.kind \in {"rejects", "not ok", "unreadable", "null"}
    THEN [chat |-> c, called |-> 0, threw |-> TRUE]
    ELSE LET msgs == addMessage(c.messages, "bot", outcome.response)
         IN  IF ObjectEntries(outcome.hexagonData).threw
             THEN [chat |-> [c EXCEPT !.messages = msgs], called |-> 0, threw |-> TRUE]
             ELSE [chat |-> [c EXCEPT !.messages = msgs,
                                      !.timers = handleMapUpdate(c.timers,
                                                     outcome.hexagonData, request.at)],
                   called |-> 1, threw |-> FALSE]

\* The try block of handleSendMessage from the moment the request settles:
\* the state it leaves, how often it called onMapUpdate and whether it ended
\* in an exception.  A rejected fetch, a status that is not OK and a body
\* that is not JSON throw before anything is written; so does data.response
\* of the body null.
SendTry(c, request, outcome) ==
    IF outcome.kind \in {"rejects", "not ok", "unreadable", "null"}
    THEN [chat |-> c, called |-> 0, threw |-> TRUE]
    ELSE LET msgs == addMessage(c.messages, "bot", outcome.response)
         IN  IF Truthy(outcome.hexagonData.prim) /\ KeysLength(outcome.hexagonData) > 0
             THEN [chat |-> [c EXCEPT !.messages = msgs,
                                      !.timers = handleMapUpdate(c.timers,
                                                     outcome.hexagonData, request.at)],
                   called |-> 1, threw |-> FALSE]
             ELSE [chat |-> [c EXCEPT !.messages = msgs], called |-> 0, threw |-> FALSE]

\* SendCatch that logs the error and adds no message
SendCatch_Silent(o) == [o EXCEPT !.threw = FALSE]

\* catch (error) { console.error(...); addMessage('bot', 'Sorry, ...') }
SendCatch(o) ==
    IF o.threw
    THEN [o EXCEPT !.threw = FALSE,
                   !.chat.messages = addMessage(o.chat.messages, "bot", Apology)]
    ELSE o

\* SendFinally that leaves isLoading as it is
SendFinally_KeepsLoading(o) == o

\* finally { setIsLoading(false) }
SendFinally(o) == [o EXCEPT !.chat.isLoading = FALSE]

\* handleSendMessage from the moment its request settles to its end.
settleSendMessage(c, request, outcome) ==
    LET o == SendFinally(SendCatch(SendTry(
                 [c EXCEPT !.inFlight = c.inFlight \ {request}], request, outcome)))
    IN  [chat |-> o.chat, called |-> o.called, escaped |-> o.threw]

\* handleSendMessage has not been called; no request has settled.
NoSend   == [message |-> Undefined, whileLoading |-> FALSE, accepted |-> FALSE]
NoSettle == [at |-> 0, outcome |-> FetchRejects, called |-> 0, escaped |-> FALSE]

----------------------------------------------------------------------------
(* The state machine.                                                      *)

\* The drawing is not followed: the score layer is selected, as page.tsx
\* starts, and no accessor result is recorded.
RenderIdle ==
    /\ activeLayer = "score"
    /\ shown = NotShown

\* The mock route has served no request.
MockIdle ==
    /\ MOCK_HEX_IDS = MockHexIds
    /\ lastMock = [body |-> NoRequest, response |-> NoResponse]

\* The routes that call the backend have served no request.
RouteIdle ==
    lastRoute = [handler |-> "none", body |-> NoRequest, backend |-> NoBackend,
                 response |-> NoResponse]

\* The chat has sent nothing.
ChatIdle ==
    /\ messages = <<>>
    /\ inputValue = ""
    /\ chatLoading = FALSE
    /\ inFlight = {}
    /\ timers = NoTimers
    /\ lastSend = NoSend
    /\ lastSettle = NoSettle
    /\ shownFor = 0

\* The map component is not followed.
MapIdle ==
    /\ component = "v2"
    /\ hexData = <<>>
    /\ isLoading = FALSE
    /\ lastData = NoCall
    /\ prevIds = {}
    /\ escaped = FALSE

\* The component as mounted by page.tsx: no initialData, showLoadingState
\* false.
Init ==
    /\ component \in {"v1", "v2"}
    /\ \E r \in RandomDraws : hexData = generateSampleFranceHexagons(component, r)
    /\ isLoading = FALSE
    /\ lastData = NoCall
    /\ prevIds = {}
    /\ escaped = FALSE
    /\ RenderIdle
    /\ MockIdle
    /\ RouteIdle
    /\ ChatIdle

\* mapRef.current.updateMap(data)
UpdateMap ==
    \E data \in DataInputs(component) :
        LET r == updateMap(component, data, hexData, isLoading)
        IN  /\ hexData' = r.hexData
            /\ isLoading' = r.isLoading
            /\ escaped' = r.escaped
            /\ lastData' = data
            /\ prevIds' = Ids(hexData)
            /\ UNCHANGED <<component, renderVars, mockVars, routeVars, chatVars>>

Next == UpdateMap

Spec == Init /\ [][Next]_vars

----------------------------------------------------------------------------
(* The state machine of the drawing: one cell is displayed and the layer   *)
(* selector of the page is used on it.                                     *)

\* The component displays the cell d and draws it with the score layer.
RenderInit ==
    /\ component \in {"v1", "v2"}
    /\ \E d \in RenderCells(component) : hexData = <<d>>
    /\ isLoading = FALSE
    /\ lastData = NoCall
    /\ prevIds = {}
    /\ escaped = FALSE
    /\ activeLayer = "score"
    /\ shown = Accessors("score", hexData[1])
    /\ MockIdle
    /\ RouteIdle
    /\ ChatIdle

\* onLayerChange(layer): page.tsx sets activeLayer and the component draws
\* the layer of that name.  part_003 has no layer selector.
SelectLayer ==
    /\ component = "v2"
    /\ \E layer \in LayerTypes :
          /\ activeLayer' = layer
          /\ shown' = Accessors(layer, hexData[1])
    /\ UNCHANGED <<mapVars, mockVars, routeVars, chatVars>>

RenderNext == SelectLayer

SpecRender == RenderInit /\ [][RenderNext]_vars

----------------------------------------------------------------------------
(* The state machine of the mock route: requests are served one after the  *)
(* other by the module that holds MOCK_HEX_IDS.                            *)

MockInit == MapIdle /\ RenderIdle /\ MockIdle /\ RouteIdle /\ ChatIdle

\* One request served by POST of part_000.
ServeMock ==
    /\ \E body \in RequestBodies, stream \in RandomStreams,
          sorted \in SortOutcomes(MOCK_HEX_IDS) :
          LET served == MockPOST(body, MOCK_HEX_IDS, sorted, stream)
          IN  /\ MOCK_HEX_IDS' = served.pool
              /\ lastMock' = [body |-> body, response |-> served.response]
    /\ UNCHANGED <<mapVars, renderVars, routeVars, chatVars>>

MockNext == ServeMock

SpecMock == MockInit /\ [][MockNext]_vars

----------------------------------------------------------------------------
(* The state machine of the routes that call the backend.                  *)

RouteInit == MapIdle /\ RenderIdle /\ MockIdle /\ RouteIdle /\ ChatIdle

\* One request served by POST of route.ts or of part_001.
ServeRoute ==
    /\ \E handler \in Handlers, body \in RequestBodies, backend \in BackendOutcomes :
          lastRoute' = [handler |-> handler, body |-> body, backend |-> backend,
                        response |-> RoutePOST(handler, body, backend)]
    /\ UNCHANGED <<mapVars, renderVars, mockVars, chatVars>>

RouteNext == ServeRoute

SpecRoute == RouteInit /\ [][RouteNext]_vars

----------------------------------------------------------------------------
(* The state machine of the chat beside the map: the user types and sends, *)
(* requests settle, and the callbacks that handleMapUpdate left with       *)
(* setTimeout run updateMap.                                               *)

ChatInit == Init

\* The chat as handleSendMessage sees it.
Chat == ChatState(messages, inputValue, chatLoading, inFlight, timers)

\* The chat is left as c.
ChatBecomes(c) ==
    /\ messages' = c.messages
    /\ inputValue' = c.inputValue
    /\ chatLoading' = c.isLoading
    /\ inFlight' = c.inFlight
    /\ timers' = c.timers

\* onChange of the input field, which is disabled while isLoading
TypeInput ==
    /\ ~chatLoading
    /\ \E text \in InputTexts : inputValue' = text
    /\ UNCHANGED <<messages, chatLoading, inFlight, timers, lastSend, lastSettle,
                   shownFor>>
    /\ UNCHANGED <<mapVars, renderVars, mockVars, routeVars>>

\* handleSendMessage(message), called from the send button, the Enter key or
\* a sample query, up to its first await.
SendMessage ==
    /\ \E message \in SendArguments :
          LET r == handleSendMessage(Chat, message)
          IN  /\ r.accepted => Len(messages) < 2 * MaxSends
              /\ ChatBecomes(r.chat)
              /\ lastSend' = [message |-> message, whileLoading |-> chatLoading,
                              accepted |-> r.accepted]
    /\ UNCHANGED <<lastSettle, shownFor>>
    /\ UNCHANGED <<mapVars, renderVars, mockVars, routeVars>>

\* A request settles and handleSendMessage runs from its await to its end.
SettleRequest ==
    /\ \E request \in inFlight, outcome \in ChatOutcomes :
          LET r == settleSendMessage(Chat, request, outcome)
          IN  /\ ChatBecomes(r.chat)
              /\ lastSettle' = [at |-> request.at, outcome |-> outcome,
                                called |-> r.called, escaped |-> r.escaped]
    /\ UNCHANGED <<lastSend, shownFor>>
    /\ UNCHANGED <<mapVars, renderVars, mockVars, routeVars>>

\* The oldest setTimeout callback of handleMapUpdate runs:
\* mapRef.current.updateMap(backendResponse).
FireTimer ==
    /\ timers # NoTimers
    /\ LET callback == Head(timers)
           r == updateMap(component, callback.data, hexData, isLoading)
       IN  /\ hexData' = r.hexData
           /\ isLoading' = r.isLoading
           /\ escaped' = r.escaped
           /\ lastData' = callback.data
           /\ prevIds' = Ids(hexData)
           /\ shownFor' = callback.at
    /\ timers' = Tail(timers)
    /\ UNCHANGED <<component, messages, inputValue, chatLoading, inFlight, lastSend,
                   lastSettle>>
    /\ UNCHANGED <<renderVars, mockVars, routeVars>>

ChatNext == TypeInput \/ SendMessage \/ SettleRequest \/ FireTimer

SpecChat == ChatInit /\ [][ChatNext]_vars

\* page.tsx as it mounts DatacenterMap.tsx beside the chat, the sample drawn
\* with Math.random() = 0.
ChatFairInit ==
    /\ ChatInit
    /\ component = "v2"
    /\ hexData = generateSampleFranceHexagons("v2", 0)

\* The network settles every request that was sent.
SpecChatFair == ChatFairInit /\ [][ChatNext]_vars /\ WF_vars(SettleRequest)

----------------------------------------------------------------------------
(* Vocabulary of the properties.                                           *)

Called == lastData # NoCall

\* the last call ended in an exception inside updateMap's try block
InternalException ==
    Called /\ (validateHexData(lastData).threw \/ Transformed(component, lastData).threw)

\* the last call ran to setHexData: hexData is the normalized batch of lastData
Updated == Called /\ ~InternalException

\* the entries of the last payload's hexagonData, as Object.entries lists them
InputEntries ==
    IF Called /\ Truthy(lastData.prim) /\ ~ObjectEntries(lastData.hexagonData).threw
    THEN ObjectEntries(lastData.hexagonData).val
    ELSE <<>>

InputKeys == {InputEntries[i].key : i \in 1..Len(InputEntries)}

\* the hexInfo supplied under the key id
InputOf(id) ==
    LET i == CHOOSE j \in 1..Len(InputEntries) : InputEntries[j].key = id
    IN  InputEntries[i].value

\* hexagonData is a mapping from ids to values (a plain object)
IsMapping == Called /\ Truthy(lastData.prim) /\ lastData.hexagonData.kind = "object"

IsObjectValue(e) == Truthy(e.prim) /\ TypeOf(e.prim) = "object"

\* an entry the specification calls valid
ValidEntry(e) ==
    e.key # "" /\ IsObjectValue(e.value) /\ IsFinite(Get(e.value, "score"))

Cells == {hexData[i] : i \in 1..Len(hexData)}

\* 0 <= v <= 1
InUnitRange(v) == IsFinite(v) /\ 0 <= v.n /\ v.n <= 1000

\* clamp(s, 0, 1) and round(x, 2) as the specification states them, on the
\* numeric value alone
Clamp01(v) ==
    CASE v = PosInf -> 1000
      [] v = NegInf -> 0
      [] v.n < 0    -> 0
      [] v.n > 1000 -> 1000
      [] OTHER      -> v.n

Round2(k) ==
    IF k >= 0 THEN ((k + 5) \div 10) * 10 ELSE 0 - (((0 - k) + 5) \div 10) * 10

----------------------------------------------------------------------------
(* Claims.                                                                 *)

\* C1: a payload whose hexagonData is null, undefined, the empty object or
\* not an object (string, number, boolean, array) normalizes to the empty
\* batch without an error: after the call the displayed batch is empty.
C1_NoDataGivesEmptyBatch ==
    (/\ Called
     /\ lastData.prim = Opaque
     /\ \/ lastData.hexagonData.kind \in {"prim", "array"}
        \/ lastData.hexagonData = HObject(<<>>))
        => (~InternalException /\ hexData = <<>>)

\* C2: an entry whose id is not a non-empty string, whose value is not an
\* object or whose score is not a finite number leaves no cell with its id
\* in the normalized batch.
C2_InvalidEntriesDropped ==
    (Updated /\ IsMapping) =>
        \A i \in 1..Len(InputEntries) :
            ~ValidEntry(InputEntries[i]) =>
                ~(\E c \in Cells : c.hex = InputEntries[i].key)

\* C3: every entry with a non-empty string id, an object value and a finite
\* score is present in the normalized batch, whatever the other entries and
\* its own auxiliary fields contain.
C3_ValidEntriesKept ==
    IsMapping =>
        \A i \in 1..Len(InputEntries) :
            ValidEntry(InputEntries[i]) =>
                (~InternalException /\ \E c \in Cells : c.hex = InputEntries[i].key)

\* C4: the normalized score of every surviving entry lies in [0, 1] and
\* equals round(clamp(s, 0, 1), 2), s being the entry's input score.
C4_ScoreClampedAndRounded ==
    Updated =>
        \A c \in Cells :
            /\ InUnitRange(c.score)
            /\ c.score = Num(Round2(Clamp01(Get(InputOf(c.hex), "score"))))

\* C4 witness: an entry whose score 1.005 rounds to 1.01 before the clamp
\* was normalized to 1, or one whose score -0.004 rounds to -0.00 was
\* normalized to 0.
C4_Witness ==
    /\ Updated
    /\ \E c \in Cells :
          /\ Get(InputOf(c.hex), "score") \in {Num(1005), Num(0 - 4)}
          /\ c.score \in {Num(1000), Num(0)}

\* the number of decimals the specification configures for an auxiliary field
Precision(f) ==
    CASE f \in {"avgTemp", "gridDistance", "avg_temperature"} -> 1
      [] f \in {"internetSpeed", "nbGridConnections", "connection_points", "latency_ms"} -> 0
      [] OTHER -> 2

\* C5: an auxiliary field is present in the normalized cell exactly when the
\* source supplied a finite number for it; a supplied 0 is kept as 0.
C5_AuxPresentIffFinite ==
    Updated =>
        \A c \in Cells : \A f \in AuxFields(component) :
            LET v == Get(InputOf(c.hex), f)
            IN  /\ (c[f] # Undefined) <=> IsFinite(v)
                /\ v = Num(0) => c[f] = Num(0)

\* C6: every auxiliary number in a normalized cell has no more decimals than
\* the precision configured for its field (1 for temperature and distance,
\* 2 for normalized sub-scores, 0 for counts, speeds and latency).
C6_AuxRoundedToPrecision ==
    Updated =>
        \A c \in Cells : \A f \in AuxFields(component) :
            IsFinite(c[f]) => c[f].n % (1000 \div Pow10(Precision(f))) = 0

OppositionEnum == {Str("low"), Str("medium"), Str("high")}

\* C7: opposition of a normalized cell is the input's opposition when that
\* is low, medium or high, and is absent for any other input value.
C7_OppositionEnumOrAbsent ==
    Updated =>
        \A c \in Cells :
            LET o == Get(InputOf(c.hex), "opposition")
            IN  c.opposition = IF o \in OppositionEnum THEN o ELSE Undefined

\* C8: updateMap never throws to its caller, whatever its argument and the
\* state it is called in.
C8_UpdateMapNeverThrows == escaped = FALSE

\* C8 witness: a call whose normalization raised an exception returned
\* normally.
C8_Witness == InternalException /\ ~escaped

\* C9: every updateMap call leaves either the complete normalization of its
\* argument or, when normalization raised an exception, exactly the batch
\* displayed before the call.
C9_AllOrNothing ==
    [][IF validateHexData(lastData').threw \/ Transformed(component', lastData').threw
       THEN hexData' = hexData
       ELSE hexData' = Transformed(component', lastData').val]_vars

\* C9 witness: normalization raised an exception on a payload that also
\* held a valid entry; the batch of an earlier update is still displayed and
\* the valid entry is not in it.
C9_Witness ==
    /\ InternalException
    /\ hexData # <<>>
    /\ prevIds = Ids(hexData)
    /\ \E i \in 1..Len(InputEntries) :
          /\ ValidEntry(InputEntries[i])
          /\ InputEntries[i].key \notin Ids(hexData)

\* C10: after an update that raised no exception the displayed batch is the
\* normalization of the argument alone: no cell of the previous batch whose
\* id is not in the argument remains.
C10_FullReplacement ==
    Updated =>
        /\ hexData = Transformed(component, lastData).val
        /\ Ids(hexData) \subseteq InputKeys
        /\ (prevIds \ InputKeys) \cap Ids(hexData) = {}

\* C10 witness: an update displayed cells while dropping a cell of the
\* previous batch whose id the argument did not name.
C10_Witness ==
    /\ Updated
    /\ hexData # <<>>
    /\ prevIds \ InputKeys # {}

\* C11: whatever calls came before, an updateMap(null) call returns
\* normally and leaves the displayed batch empty and the component not
\* loading; a further updateMap(null) leaves the same.
C11_NullEmptiesBatch ==
    lastData = DataPrim(Null) =>
        /\ hexData = <<>>
        /\ isLoading = FALSE
        /\ escaped = FALSE

\* C11 witness: updateMap(null) was called while a batch of cells was
\* displayed, and the batch is gone.
C11_Witness ==
    /\ lastData = DataPrim(Null)
    /\ prevIds # {}
    /\ hexData = <<>>

\* C24: in every reachable state of the map component, the initial state
\* with the generated sample batch included, every cell of the displayed
\* batch has 0 <= score <= 1.
C24_DisplayedScoresInUnitRange ==
    \A c \in Cells : InUnitRange(c.score)

\* The layers that the mounted component can draw
DrawableLayers == IF component = "v2" THEN LayerTypes ELSE {"score"}

\* C25: for every batch that updateMap displays and for every layer that can
\* be active, the elevation of every cell lies in [0, 5000]: the value that
\* is multiplied by 5000 is within [0, 1], in the layers of the sub-scores
\* (connection, latency, temperature) as in the score layer.
C25_ElevationWithinRange ==
    Updated =>
        \A c \in Cells, layer \in DrawableLayers :
            LET elevation == getElevation(layer, c)
            IN  IsFinite(elevation) /\ 0 <= elevation.n /\ elevation.n <= 5000 * 1000

\* How many of the loading overlay, the hexagon layers and the empty-state
\* notice are rendered when isLoading is `loading' and activeLayer `layer'.
RenderedCount(loading, layer) ==
    (IF LoadingOverlay(loading) THEN 1 ELSE 0)
        + Cardinality(HexagonLayers(component, hexData, loading, layer))
        + (IF EmptyNotice(hexData, loading) THEN 1 ELSE 0)

\* C30: the component renders exactly one of the loading overlay, one
\* hexagon layer (that of the active layer, when the batch is not empty and
\* isLoading is false) and the empty-state notice (when the batch is empty
\* and isLoading is false), whichever layer is active, with isLoading as it
\* is and as it is between setIsLoading(true) and the finally block; two
\* hexagon layers are never rendered together, and after every updateMap
\* call isLoading is false.
C30_RenderingExclusive ==
    /\ Called => ~isLoading
    /\ \A layer \in DrawableLayers, loading \in {isLoading, TRUE} :
          /\ RenderedCount(loading, layer) = 1
          /\ HexagonLayers(component, hexData, loading, layer) \subseteq {layer}
          /\ LoadingOverlay(loading) <=> loading
          /\ EmptyNotice(hexData, loading) <=> (hexData = <<>> /\ ~loading)

\* C30 witness: an update emptied the batch of DatacenterMap.tsx and the
\* empty-state notice alone is rendered.
C30_Witness ==
    /\ Called
    /\ component = "v2"
    /\ hexData = <<>>
    /\ ~isLoading
    /\ EmptyNotice(hexData, isLoading)
    /\ \A layer \in LayerTypes : HexagonLayers(component, hexData, isLoading, layer) = {}

----------------------------------------------------------------------------
(* Properties of the colour and elevation mapper (SpecRender).             *)

\* The field that a layer selects, as the cell holds it.
SelectedField(layer, d) ==
    CASE layer = "score"       -> d.score
      [] layer = "connection"  -> d.connection_normalized_score
      [] layer = "latency"     -> d.latency_normalized_score
      [] layer = "temperature" -> d.temperature_normalized_score

\* The value the drawn layer selects from the displayed cell.
ShownValue == SelectedField(activeLayer, hexData[1])

\* The integer of 0..255 nearest to num / den, the larger one on a tie.
Nearest(num, den) ==
    CHOOSE n \in 0..255 : 2 * (n * den - num) <= den /\ 2 * (num - n * den) < den

\* The three-band gradient at s (thousandths, 0..1000):
\*   s < 0.3        (255, round(100 + 155 s / 0.3), 50)
\*   0.3 <= s < 0.7 (255, 255, round(50 + 205 (s - 0.3) / 0.4))
\*   s >= 0.7       (round(255 - 100 (s - 0.7) / 0.3), 255,
\*                   round(255 - 155 (s - 0.7) / 0.3))
ThreeBand(s) ==
    CASE s < 300            -> <<255, Nearest(30000 + 155 * s, 300), 50>>
      [] 300 <= s /\ s < 700 -> <<255, 255, Nearest(20000 + 205 * (s - 300), 400)>>
      [] s >= 700           -> <<Nearest(76500 - 100 * (s - 700), 300), 255,
                                 Nearest(76500 - 155 * (s - 700), 300)>>

WithinOne(c1, c2) ==
    /\ Len(c1) = Len(c2)
    /\ \A i \in 1..Len(c1) : c1[i] - c2[i] \in {0 - 1, 0, 1}

\* C13: the gradient is continuous where its bands meet: the colour at 0.3
\* is (255, 255, 50) and the colour at 0.7 is (255, 255, 255), and the colour
\* at the upper end of the band below (0.299, 0.699) is within one unit of
\* it in every channel.
C13_ContinuousAtBandBoundaries ==
    /\ ShownValue = Num(300) => shown.fill = <<255, 255, 50, 220>>
    /\ ShownValue = Num(299) => WithinOne(shown.fill, <<255, 255, 50, 220>>)
    /\ ShownValue = Num(700) => shown.fill = <<255, 255, 255, 220>>
    /\ ShownValue = Num(699) => WithinOne(shown.fill, <<255, 255, 255, 220>>)

\* C13 witness: a sub-score of 0.699, at the upper end of the middle band,
\* is drawn one unit of blue away from the colour at 0.7.
C13_Witness ==
    /\ activeLayer = "connection"
    /\ ShownValue = Num(699)
    /\ shown.fill = <<255, 255, 254, 220>>

StrictEquals(a, b) == IF IsNaN(a) THEN FALSE ELSE a = b \/ (IsZero(a) /\ IsZero(b))

\* The cell d with the field that a layer selects set to v.
WithSelected(layer, d, v) ==
    CASE layer = "score"       -> [d EXCEPT !.score = v]
      [] layer = "connection"  -> [d EXCEPT !.connection_normalized_score = v]
      [] layer = "latency"     -> [d EXCEPT !.latency_normalized_score = v]
      [] layer = "temperature" -> [d EXCEPT !.temperature_normalized_score = v]

\* A cell the component can display: a score and sub-scores of the sets
\* RenderCells is built from.
Displayable(d) ==
    /\ d.score \in DisplayScores(component)
    /\ d.connection_normalized_score \in SubScores
    /\ d.latency_normalized_score \in SubScores
    /\ d.temperature_normalized_score \in SubScores

\* C15: the layer only chooses the field: a cell whose field in any layer
\* equals the value drawn gets, in that layer, the fill colour, outline and
\* elevation that are drawn.
C15_LayerOnlySelectsField ==
    \A layer \in (IF component = "v1" THEN {"score"} ELSE LayerTypes) :
        LET d == WithSelected(layer, hexData[1], ShownValue)
        IN  Displayable(d) /\ StrictEquals(SelectedField(layer, d), ShownValue)
                => Accessors(layer, d) = shown

\* C15 witness: the latency layer draws a cell whose latency score 0.81
\* differs from its score 0.5; a cell of connection score 0.81 gets the same
\* colours and elevation in the connection layer, and a cell of score 0.81
\* in the score layer.
C15_Witness ==
    /\ activeLayer = "latency"
    /\ hexData[1].score = Num(500)
    /\ ShownValue = Num(810)
    /\ shown = Accessors("connection", RenderCell(Num(500), Num(810)))
    /\ shown = Accessors("score", RenderCell(Num(810), Num(810)))
    /\ shown.line = <<255, 255, 255, 120>>

----------------------------------------------------------------------------
(* Properties of the mock route (SpecMock).                                *)

\* The last request was answered with generated data.
MockServed == lastMock.response.status = 200

\* The scenario of the last request that was answered with data.
MockScenario == AnalyzedMessages[lastMock.body.message.s].scenario

\* The entries of the returned hexagonData, and their ids.
MockItems == lastMock.response.hexagonData.items

MockKeys == {MockItems[i].key : i \in 1..Len(MockItems)}

\* The field f of the i-th returned entry.
MockField(i, f) == Get(MockItems[i].value, f)

\* The number v lies in [lo, hi] (thousandths).
Within(v, lo, hi) == IsFinite(v) /\ lo <= v.n /\ v.n <= hi

\* C16: every entry generated for the scenario 'good' has an output score
\* in [0.6, 1.0], and every entry generated for 'bad' one in [0.0, 0.4].
C16_ScoreRangeByScenario ==
    MockServed =>
        \A i \in 1..Len(MockItems) :
            /\ MockScenario = "good" => Within(MockField(i, "score"), 600, 1000)
            /\ MockScenario = "bad"  => Within(MockField(i, "score"), 0, 400)

\* C16 witness: a 'good' request drew a score that rounds up to 1.0, the
\* end of its range.
C16_Witness ==
    /\ MockServed
    /\ MockScenario = "good"
    /\ \E i \in 1..Len(MockItems) : MockField(i, "score") = Num(1000)

\* The elements of a sequence.
Range(a) == {a[i] : i \in 1..Len(a)}

\* C17: every call returns between 6 and 12 cells, with pairwise distinct
\* ids that all belong to the pool of 12 identifiers, and the pool keeps its
\* content from call to call.
C17_DistinctIdsFromPool ==
    /\ Range(MOCK_HEX_IDS) = Range(MockHexIds)
    /\ Len(MOCK_HEX_IDS) = Len(MockHexIds)
    /\ MockServed =>
          /\ 6 <= Len(MockItems) /\ Len(MockItems) <= 12
          /\ Cardinality(MockKeys) = Len(MockItems)
          /\ MockKeys \subseteq Range(MockHexIds)

\* C17 witness: a call that found the pool in an order an earlier call had
\* left returned 11 cells.
C17_Witness ==
    /\ MockServed
    /\ Len(MockItems) = 11
    /\ MOCK_HEX_IDS[1] \notin {MockHexIds[1], MockHexIds[2], MockHexIds[12]}

\* The scenario table: the range of each auxiliary output (thousandths)
\* and the opposition values.
ScenarioTable ==
    [good  |-> [avgTemp |-> <<8000, 13000>>, gridDistance |-> <<500, 2500>>,
                internetSpeed |-> <<800000, 1000000>>,
                nbGridConnections |-> <<3000, 5000>>,
                opposition |-> {"low", "medium"}],
     bad   |-> [avgTemp |-> <<20000, 30000>>, gridDistance |-> <<5000, 13000>>,
                internetSpeed |-> <<100000, 300000>>,
                nbGridConnections |-> <<1000, 2000>>,
                opposition |-> {"medium", "high"}],
     mixed |-> [avgTemp |-> <<8000, 23000>>, gridDistance |-> <<0, 10000>>,
                internetSpeed |-> <<200000, 900000>>,
                nbGridConnections |-> <<1000, 4000>>,
                opposition |-> {"low", "medium", "high"}]]

\* C18: every auxiliary output of an entry lies in the range that the table
\* gives for the scenario, and its opposition is one the scenario allows.
C18_AuxRangeByScenario ==
    MockServed =>
        LET row == ScenarioTable[MockScenario]
        IN  \A i \in 1..Len(MockItems) :
                /\ \A f \in {"avgTemp", "gridDistance", "internetSpeed",
                             "nbGridConnections"} :
                      Within(MockField(i, f), row[f][1], row[f][2])
                /\ MockField(i, "nbGridConnections").n % 1000 = 0
                /\ \E o \in row.opposition : MockField(i, "opposition") = Str(o)

\* C18 witness: a 'bad' request returned an entry with 2 grid connections,
\* 299 Mbps and high opposition.
C18_Witness ==
    /\ MockServed
    /\ MockScenario = "bad"
    /\ \E i \in 1..Len(MockItems) :
          /\ MockField(i, "nbGridConnections") = Num(2000)
          /\ MockField(i, "internetSpeed") = Num(299000)
          /\ MockField(i, "opposition") = Str("high")

\* The returned score of the entry under an id.
MockScoreOf(id) ==
    LET i == CHOOSE i \in 1..Len(MockItems) : MockItems[i].key = id
    IN  MockField(i, "score")

\* C19: every highlighted id is a key of the returned hexagonData whose
\* output score exceeds the threshold of the scenario (0.8 for 'good', 0.7
\* for 'mixed'); at most 3 ids are highlighted for 'good' and at most 2 for
\* 'mixed'; for 'bad' the field is absent.
C19_HighlightRule ==
    MockServed =>
        LET highlighted == lastMock.response.highlighted
            threshold   == IF MockScenario = "good" THEN 800 ELSE 700
        IN  /\ \A n \in 1..Len(highlighted.ids) :
                  /\ highlighted.ids[n] \in MockKeys
                  /\ MockScoreOf(highlighted.ids[n]).n > threshold
            /\ MockScenario = "good"  => Len(highlighted.ids) <= 3
            /\ MockScenario = "mixed" => Len(highlighted.ids) <= 2
            /\ MockScenario = "bad"   => highlighted = NoHighlighted

\* The fields of a generated entry that the normalizer of part_003 copies
MockFields ==
    {"score", "avgTemp", "gridDistance", "internetSpeed", "nbGridConnections",
     "internetSpeedNorm", "gridDistanceNorm", "nbGridConnectionsNorm", "avgTempNorm",
     "opposition"}

\* What updateMap of part_003 displays when it is handed the hexagonData of
\* the served response.
MockNormalized ==
    transformBackendData("v1", DataObj(lastMock.response.hexagonData))

\* C26: a batch of the mock generator is a fixed point of the normalizer of
\* its schema: updateMap displays one cell per generated id, each with the
\* generated score, auxiliary fields (also those generated as 0) and
\* opposition.
C26_MockIsFixedPoint ==
    MockServed =>
        /\ validateHexData(DataObj(lastMock.response.hexagonData)) = Value(TRUE)
        /\ ~MockNormalized.threw
        /\ Len(MockNormalized.val) = Len(MockItems)
        /\ \A i \in 1..Len(MockItems) :
              /\ MockNormalized.val[i].hex = MockItems[i].key
              /\ \A f \in MockFields : MockNormalized.val[i][f] = MockField(i, f)

----------------------------------------------------------------------------
(* Properties of the routes that call the backend (SpecRoute).             *)

\* The last request had a valid message and its backend call failed in
\* transport: fetch rejected, or the status was not OK.
TransportFailure ==
    /\ lastRoute.body.kind = "object"
    /\ Truthy(lastRoute.body.message)
    /\ TypeOf(lastRoute.body.message) = "string"
    /\ lastRoute.backend.kind \in {"network error", "not ok"}

\* The canned texts of the fallbacks, by the name of their branch.
CannedTexts ==
    {Str(t) : t \in {"optimal", "temperature", "internet", "grid", "default",
                     "legal", "community", "research"}}

\* The response is a success with a canned text.
CannedSuccess ==
    /\ lastRoute.response.status = 200
    /\ lastRoute.response.error = ""
    /\ lastRoute.response.response \in CannedTexts
    /\ lastRoute.response.hexagonData.kind = "object"

\* The ids of the cells in the response.
RouteKeys ==
    [i \in 1..Len(lastRoute.response.hexagonData.items) |->
        lastRoute.response.hexagonData.items[i].key]

\* C20: when the backend call fails in transport for a request with a valid
\* message, the handler answers successfully with a canned text and a
\* hexagonData without cells.
C20_FallbackHasNoCells ==
    TransportFailure =>
        /\ CannedSuccess
        /\ RouteKeys = <<>>

\* C20 as amended: when the backend call fails in transport for a request
\* with a valid message, the handler answers successfully with a canned
\* text; the analyze route returns a hexagonData without cells, the research
\* route its two sample cells, the first of them highlighted.
C20_FallbackByRoute ==
    TransportFailure =>
        /\ CannedSuccess
        /\ lastRoute.handler = "analyze" =>
              /\ RouteKeys = <<>>
              /\ lastRoute.response.highlighted = HighlightedArray(<<>>)
        /\ lastRoute.handler = "research" =>
              /\ RouteKeys = <<"871fb4662ffffff", "871f90209ffffff">>
              /\ lastRoute.response.highlighted = HighlightedArray(<<"871fb4662ffffff">>)

\* C20 witness: the research route answered a request whose backend call
\* got a status that is not OK with its canned text and two cells.
C20_Witness ==
    /\ TransportFailure
    /\ lastRoute.handler = "research"
    /\ lastRoute.backend.kind = "not ok"
    /\ lastRoute.response.status = 200
    /\ Len(RouteKeys) = 2

\* The handler answered with what the backend returned: the message was
\* valid and the backend call gave an object.
ServedByBackend ==
    /\ lastRoute.body.kind = "object"
    /\ Truthy(lastRoute.body.message)
    /\ TypeOf(lastRoute.body.message) = "string"
    /\ lastRoute.backend.kind = "ok"
    /\ lastRoute.backend.data.prim # Null

\* highlighted as the backend sent it
BackendHighlighted == lastRoute.backend.data.highlighted

\* C23 (as claimed): whichever shape the backend uses for highlighted, an
\* array of ids or a mapping from id to number, the response of the handler
\* carries highlighted absent or as the list of exactly those ids.
C23_HighlightedIsIdList ==
    ServedByBackend =>
        \/ lastRoute.response.highlighted = NoHighlighted
        \/ lastRoute.response.highlighted = HighlightedArray(BackendHighlighted.ids)

\* C23 (amended): each handler sends the list of exactly those ids for the
\* shape its types declare, the analyze route for an array and the research
\* route for a mapping, and absent for absent; of the other shape the
\* analyze route sends the mapping as it is and the research route the
\* indices of the array.
C23_HighlightedByRoute ==
    ServedByBackend =>
        /\ BackendHighlighted.kind = "absent" =>
              lastRoute.response.highlighted = NoHighlighted
        /\ (lastRoute.handler = "analyze" /\ BackendHighlighted.kind = "array") =>
              lastRoute.response.highlighted = HighlightedArray(BackendHighlighted.ids)
        /\ (lastRoute.handler = "research" /\ BackendHighlighted.kind = "mapping") =>
              lastRoute.response.highlighted = HighlightedArray(BackendHighlighted.ids)
        /\ (lastRoute.handler = "analyze" /\ BackendHighlighted.kind = "mapping") =>
              lastRoute.response.highlighted = BackendHighlighted
        /\ (lastRoute.handler = "research" /\ BackendHighlighted.kind = "array") =>
              lastRoute.response.highlighted =
                  HighlightedArray([i \in 1..Len(BackendHighlighted.ids) |->
                                       ToString(i - 1)])

\* C23 witness: the research route turned a mapping with an id into the
\* list of that id.
C23_Witness ==
    /\ ServedByBackend
    /\ lastRoute.handler = "research"
    /\ BackendHighlighted.kind = "mapping"
    /\ Len(BackendHighlighted.ids) > 0
    /\ lastRoute.response.highlighted = HighlightedArray(BackendHighlighted.ids)

----------------------------------------------------------------------------
(* Properties of the chat (SpecChat, SpecChatFair).                        *)

\* A request has settled.
HasSettled == lastSettle.at > 0

\* The request failed on the client: fetch rejected, the status was not OK
\* or the body could not be read.
FailedOutcome(o) == o.kind \in {"rejects", "not ok", "unreadable"}

\* The step is the settling of a request.
Settles == lastSettle' # lastSettle

\* The last message of the transcript
LastMessage == messages[Len(messages)]

\* C21: when a chat request fails on the client, handleSendMessage appends
\* exactly one bot message, the apology, does not call onMapUpdate (no
\* callback is left waiting and the displayed batch is unchanged) and lets no
\* exception escape.
C21_FailureGivesOneApology ==
    [][(Settles /\ FailedOutcome(lastSettle'.outcome)) =>
          /\ messages' = Append(messages, Message("bot", Apology))
          /\ lastSettle'.called = 0
          /\ timers' = timers
          /\ hexData' = hexData
          /\ ~lastSettle'.escaped]_vars

C21_Witness ==
    /\ HasSettled
    /\ FailedOutcome(lastSettle.outcome)
    /\ Len(messages) = lastSettle.at + 1
    /\ LastMessage = Message("bot", Apology)

\* The places in the transcript of the answers that wait in the timers
TimerPlaces == {timers[i].at : i \in 1..Len(timers)}

\* C22 (as claimed): there is no request sequencing, so a second request is
\* sent while the first is in flight, which is what lets a late response of
\* the earlier request overwrite the batch of the later one: a call of
\* handleSendMessage with a message is accepted also while isLoading.
C22_NoRequestSequencing ==
    (Truthy(lastSend.message) /\ lastSend.whileLoading) => lastSend.accepted

\* C22 (amended): requests are sequenced by the isLoading guard and the
\* timers run in the order they were set, so the map is updated in the order
\* the requests were sent: the displayed batch never goes back to the answer
\* of an earlier request, and every answer still under way (in flight or
\* waiting in a timer) is later than the one displayed.
C22_AppliedInRequestOrder ==
    [][/\ shownFor' >= shownFor
       /\ \A at \in TimerPlaces' \cup {request.at : request \in inFlight'} :
              at > shownFor']_vars

C22_Witness ==
    /\ shownFor = 3
    /\ prevIds = {HexKey(1)}
    /\ lastData # NoCall

\* hexagonData carries at least one entry
HasEntries(h) == ~ObjectEntries(h).threw /\ Len(ObjectEntries(h).val) > 0

\* C27: a response whose hexagonData is absent or has no entries triggers no
\* map update: onMapUpdate is not called, no callback is left waiting and
\* the displayed batch stays as it was; onMapUpdate is called, once, if and
\* only if the response carries at least one entry, and then with that
\* hexagonData.
C27_MapUpdateIffEntries ==
    [][Settles =>
          LET h == lastSettle'.outcome.hexagonData
          IN  /\ lastSettle'.called = (IF HasEntries(h) THEN 1 ELSE 0)
              /\ HasEntries(h) =>
                    timers' = Append(timers, [at |-> lastSettle'.at, data |-> DataObj(h)])
              /\ ~HasEntries(h) => timers' = timers
              /\ hexData' = hexData]_vars

\* C27 witness: the answer to the first message reached the map, the answer
\* to the second carried a hexagonData without entries and left the map as
\* it was.
C27_Witness ==
    /\ shownFor = 1
    /\ lastSettle.at = 3
    /\ lastSettle.outcome = JsonObject(Str("answer"), HObject(<<>>))
    /\ lastSettle.called = 0
    /\ timers = NoTimers

\* The transcript alternates user message, bot message, from a user message.
Alternates(transcript) ==
    \A i \in 1..Len(transcript) :
        transcript[i].type = (IF i % 2 = 1 THEN "user" ELSE "bot")

\* The step is a call of handleSendMessage made while isLoading.
SendsWhileLoading == lastSend' # lastSend /\ lastSend'.whileLoading

\* C28: at most one chat request is in flight at any time, and one is in
\* flight exactly while isLoading; a call of handleSendMessage made while
\* isLoading adds no message and sends no request; so the transcript always
\* alternates user message, bot message, starting with a user message.
C28_OneRequestAtATime ==
    [][/\ Cardinality(inFlight') <= 1
       /\ chatLoading' <=> inFlight' # {}
       /\ SendsWhileLoading =>
             /\ ~lastSend'.accepted
             /\ messages' = messages
             /\ inFlight' = inFlight
       /\ Alternates(messages')]_vars

\* C28 witness: while the second request is in flight, a sample query was
\* clicked and refused.
C28_Witness ==
    /\ chatLoading
    /\ Len(messages) = 3
    /\ Cardinality(inFlight) = 1
    /\ lastSend = [message |-> Str(SAMPLE_QUERIES[1]), whileLoading |-> TRUE,
                   accepted |-> FALSE]

\* The send whose user message is the n-th of the transcript is under way.
Sending(n) == chatLoading /\ Len(messages) = n

\* That send is complete: isLoading is false again and one bot message
\* follows the user message.
Completed(n) ==
    /\ ~chatLoading
    /\ Len(messages) = n + 1
    /\ messages[n].type = "user"
    /\ messages[n + 1].type = "bot"

\* C29: every accepted send eventually completes, given that the request
\* settles: isLoading returns to false and exactly one bot message, the
\* answer or the apology, follows the user message, whether the request
\* succeeds or fails.
C29_SendEventuallyCompletes ==
    \A n \in 1..(2 * MaxSends) : Sending(n) ~> Completed(n)

\* C29 witness: a send that failed and a send that succeeded are both
\* complete.
C29_Witness ==
    /\ ~chatLoading
    /\ Len(messages) = 4
    /\ messages[2] = Message("bot", Apology)
    /\ messages[4] = Message("bot", Str("answer"))

====
